---- MODULE Spec2Model ----
(***************************************************************************)
(* A model of assist's entry points (src/src/js/index.js): init, onboard,  *)
(* Contract, Transaction and the legacy method wrappers built by Contract. *)
(*                                                                         *)
(* Three specifications share the variables:                               *)
(*   Spec          init / interactive onboard / Contract gates /           *)
(*                 Transaction, with Environment State changing under them *)
(*   SpecHeadless  the headless branch of onboard over every combination   *)
(*                 of the Environment State flags it reads                 *)
(*   SpecAdapter   Contract's wrapping of a descriptor and the legacy      *)
(*                 .call / .sendTransaction wrappers                       *)
(* Collaborators imported by index.js (event notifier, detectors, the      *)
(* submission primitive, the provider) are the environment: their outcome  *)
(* is a nondeterministic choice.                                           *)
(*                                                                         *)
(* The flags only the headless checks read (wallet, account, network,      *)
(* balance) vary in SpecHeadless and stay as loaded in the other two, whose*)
(* entry points never read them. A caller's callback is taken to return    *)
(* normally. The asynchronous tail of init (getState().then(...), lines    *)
(* 95-114) shows here as the detectors it runs (checkValidBrowser).        *)
(***************************************************************************)
EXTENDS Integers, Sequences, FiniteSets, TLC

VARIABLES
  state,       \* Environment State (helpers/state): the flags index.js reads and writes
  windowWeb3,  \* whether a global ambient provider (window.web3) is present
  apis,        \* the API objects init has returned, each as the config its closure holds
  call,        \* the entry point being executed / last executed, with its inputs
  ret,         \* what the last call did synchronously: returned / thrown, and the value
  promise,     \* the promise the last call returned: status and settled value
  settleLog,   \* every resolve(...) / reject(...) issued on that promise, in order
  events,      \* every handleEvent(...) issued by the last call, in order
  cbCalls,     \* every invocation of the caller's callback by the last call, in order
  hookRuns,    \* how often the external UI has invoked the pending dismissal hook
  wrapped      \* SpecAdapter: the descriptor last given to Contract and what it returned

vars == <<state, windowWeb3, apis, call, ret, promise, settleLog, events, cbCalls,
          hookRuns, wrapped>>

-----------------------------------------------------------------------------
(* JavaScript values, as far as the entry points tell them apart.          *)

JSUndefined == [ty |-> "undefined", b |-> FALSE, n |-> 0, s |-> "", eventCode |-> ""]
JSNull == [ty |-> "null", b |-> FALSE, n |-> 0, s |-> "", eventCode |-> ""]
JSBool(x) == [ty |-> "boolean", b |-> x, n |-> 0, s |-> "", eventCode |-> ""]
JSNum(x) == [ty |-> "number", b |-> FALSE, n |-> x, s |-> "", eventCode |-> ""]
JSStr(x) == [ty |-> "string", b |-> FALSE, n |-> 0, s |-> x, eventCode |-> ""]
\* new Error(msg) with errorObj.eventCode = code ("" when the code is not set)
JSError(code, msg) == [ty |-> "error", b |-> FALSE, n |-> 0, s |-> msg, eventCode |-> code]

\* JavaScript truthiness: `if (x)`, `x && ...`, `!x`
Truthy(v) ==
  CASE v.ty = "undefined" -> FALSE
    [] v.ty = "null" -> FALSE
    [] v.ty = "boolean" -> v.b
    [] v.ty = "number" -> v.n # 0
    [] v.ty = "string" -> v.s # ""
    [] OTHER -> TRUE

-----------------------------------------------------------------------------
(* Promises: resolve and reject settle a pending promise and are no-ops on *)
(* a settled one.                                                          *)

NoPromise == [status |-> "none", value |-> JSUndefined]
PendingPromise == [status |-> "pending", value |-> JSUndefined]

SettleLastWins(p, how, v) == [status |-> how, value |-> v]

Settle(p, how, v) ==
  IF p.status = "pending" THEN [status |-> how, value |-> v] ELSE p

RECURSIVE SettleAll(_, _)
\* the promise after the resolve / reject calls of `log` are issued in order
SettleAll(p, log) ==
  IF log = <<>> THEN p
  ELSE SettleAll(Settle(p, Head(log).how, Head(log).value), Tail(log))

Resolve(v) == [how |-> "resolved", value |-> v]
Reject(v) == [how |-> "rejected", value |-> v]

-----------------------------------------------------------------------------
(* Event records handed to handleEvent.                                    *)

NoContract == [methodName |-> "", parameters |-> <<>>, result |-> JSUndefined]

\* `hook`: whether interactive handlers ({onClose}) were passed along;
\* `at`: Environment State as it was when the notifier was called
Event(code, category, reason, hook, at) ==
  [eventCode |-> code, categoryCode |-> category, reason |-> reason,
   onClose |-> hook, contract |-> NoContract,
   validApiKey |-> at.validApiKey, validBrowser |-> at.validBrowser]

-----------------------------------------------------------------------------
(* Configurations given to init.                                           *)

\* init(), init(null): !config
ConfigMissing ==
  [kind |-> "missing", dappId |-> FALSE, mobileBlocked |-> FALSE,
   headlessMode |-> FALSE, web3 |-> FALSE]
\* init("key"), init(42): typeof config !== 'object'
ConfigNotObject ==
  [kind |-> "notObject", dappId |-> FALSE, mobileBlocked |-> FALSE,
   headlessMode |-> FALSE, web3 |-> FALSE]
\* dappId, web3: whether the field is present (truthy)
ConfigObjects ==
  [kind : {"object"}, dappId : BOOLEAN, mobileBlocked : BOOLEAN,
   headlessMode : BOOLEAN, web3 : BOOLEAN]
ConfigInputs == {ConfigMissing, ConfigNotObject} \cup ConfigObjects

NoConfig == [kind |-> "none", dappId |-> FALSE, mobileBlocked |-> FALSE,
             headlessMode |-> FALSE, web3 |-> FALSE]

-----------------------------------------------------------------------------
(* Environment State.                                                      *)

\* web3Instance: "none" (unset), "legacy" (legacyWeb3 true) or "modern"
Web3Kinds == {"legacy", "modern"}

\* the record before init has run: no config, no provider instance, no detector has
\* run yet (flags falsy); the two flags the websocket connection reports are given
StateAtLoad(key, net) ==
  [config |-> NoConfig, validApiKey |-> key, supportedNetwork |-> net,
   mobileDevice |-> FALSE, validBrowser |-> FALSE, web3Instance |-> "none",
   web3Wallet |-> FALSE, accessToAccounts |-> FALSE, legacyWallet |-> FALSE,
   modernWallet |-> FALSE, walletLoggedIn |-> FALSE, walletEnabled |-> FALSE,
   correctNetwork |-> FALSE, minimumBalance |-> FALSE]

\* updateState({config}): of the config, only the fields read back later are kept
StoredConfig(config) ==
  [kind |-> "object", dappId |-> FALSE, mobileBlocked |-> config.mobileBlocked,
   headlessMode |-> config.headlessMode, web3 |-> FALSE]

NoCall == [fn |-> "none", pc |-> "done"]
NoRet == [kind |-> "none", value |-> JSUndefined]
Returned(v) == [kind |-> "returned", value |-> v]
Thrown(v) == [kind |-> "thrown", value |-> v]
\* the value standing for the API object {onboard, Contract, Transaction, getState}
ApiObject == [ty |-> "object", b |-> FALSE, n |-> 0, s |-> "api", eventCode |-> ""]
\* the value standing for a promise object returned to the caller
PromiseObject == [ty |-> "object", b |-> FALSE, n |-> 0, s |-> "promise", eventCode |-> ""]
\* the value standing for a contract object returned to the caller (see `wrapped`)
ContractObject == [ty |-> "object", b |-> FALSE, n |-> 0, s |-> "contract", eventCode |-> ""]

NoWrapped == [made |-> FALSE]

-----------------------------------------------------------------------------
(* Collaborators.                                                          *)

\* configureWeb3(handle?): the provider instance it leaves in Environment State.
\* With a handle, or with a global ambient provider, an instance of either
\* generation; with neither, the instance stays unset.
ConfigureWeb3Outcomes(hasHandle) ==
  IF hasHandle \/ windowWeb3 THEN Web3Kinds ELSE {"none"}

\* the error a failing collaborator rejects with (it carries no eventCode of index.js)
CollaboratorError == JSError("", "collaborator failed")

-----------------------------------------------------------------------------
(* init(config)                                                            *)

ReasonNoConfig == "A config object is needed to initialize assist"
ReasonNoApiKey == "No API key provided to init function"
MessageNoApiKey == "API key is required"

\* the two gate flags as a call finds them when it starts (the websocket connection
\* may change them afterwards)
Pre == [validApiKey |-> state.validApiKey, supportedNetwork |-> state.supportedNetwork]

\* a call may start when the previous one has run to completion, or is left
\* waiting for the dismissal hook
Idle == call.pc \in {"done", "awaitHook"}

Fresh ==
  /\ promise' = NoPromise
  /\ settleLog' = <<>>
  /\ cbCalls' = <<>>
  /\ hookRuns' = 0

\* lines 28-39: no config object
initNoConfig(config) ==
  /\ config.kind # "object"
  /\ events' = <<Event("initFail", "initialize", ReasonNoConfig, FALSE, state)>>
  /\ ret' = Thrown(JSError("initFail", ReasonNoConfig))
  /\ UNCHANGED <<state, apis>>

\* initNoApiKey without the throw: execution falls through to the return of the API
initNoApiKeyFallsThrough(config) ==
  /\ config.kind = "object" /\ ~config.dappId
  /\ events' = <<Event("initFail", "initialize", ReasonNoApiKey, FALSE, state)>>
  /\ state' = [state EXCEPT !.config = StoredConfig(config), !.validApiKey = FALSE]
  /\ apis' = apis \cup {config.mobileBlocked}
  /\ ret' = Returned(ApiObject)

\* initNoApiKey building the error from the notified reason, as lines 29-37 do
initNoApiKeySharedReason(config) ==
  /\ config.kind = "object" /\ ~config.dappId
  /\ events' = <<Event("initFail", "initialize", ReasonNoApiKey, FALSE, state)>>
  /\ state' = [state EXCEPT !.config = StoredConfig(config), !.validApiKey = FALSE]
  /\ ret' = Thrown(JSError("initFail", ReasonNoApiKey))
  /\ UNCHANGED apis

\* lines 41, 47-61: a config object without dappId
initNoApiKey(config) ==
  /\ config.kind = "object" /\ ~config.dappId
  /\ events' = <<Event("initFail", "initialize", ReasonNoApiKey, FALSE, state)>>
  /\ state' = [state EXCEPT !.config = StoredConfig(config), !.validApiKey = FALSE]
  /\ ret' = Thrown(JSError("initFail", MessageNoApiKey))
  /\ UNCHANGED apis

\* lines 41, 63-117: the API object is built and returned
initOk(config) ==
  /\ config.kind = "object" /\ config.dappId
  /\ \E inst \in (IF config.web3 THEN ConfigureWeb3Outcomes(TRUE)
                                 ELSE {state.web3Instance}),
        mobile \in BOOLEAN :
       LET blocked == mobile /\ config.mobileBlocked IN
       /\ state' = [state EXCEPT !.config = StoredConfig(config),
                                 !.web3Instance = inst,
                                 !.mobileDevice = mobile,
                                 !.validBrowser = IF blocked THEN FALSE ELSE @]
       /\ events' = IF blocked
                      THEN <<Event("mobileBlocked", "initialize", "", FALSE, state)>>
                      ELSE <<>>
  /\ apis' = apis \cup {config.mobileBlocked}
  /\ ret' = Returned(ApiObject)

init(config) ==
  /\ Idle
  /\ call' = [fn |-> "init", pc |-> "done", config |-> config]
  /\ Fresh
  /\ \/ initNoConfig(config)
     \/ initNoApiKey(config)
     \/ initOk(config)
  /\ wrapped' = NoWrapped
  /\ UNCHANGED windowWeb3

\* the websocket connection opened by init reports on the API key and the network
WebsocketMessage ==
  /\ \E key \in BOOLEAN, net \in BOOLEAN :
       state' = [state EXCEPT !.validApiKey = key, !.supportedNetwork = net]
  /\ UNCHANGED <<windowWeb3, apis, call, ret, promise, settleLog, events, cbCalls,
                 hookRuns, wrapped>>

-----------------------------------------------------------------------------
(* onboard(), interactive branch (lines 186-219)                           *)

MaxHookRuns == 2

\* what prepareForTransaction may resolve with
ReadyValues == {JSBool(TRUE), JSStr("ready")}

ErrApiKey == JSError("initFail", "Your api key is not valid")
ErrNetwork == JSError("initFail", "This network is not supported")
ErrMobile == JSError("mobileBlocked", "User is on a mobile device")

\* return Promise.reject(errorObj)
ReturnRejected(err) ==
  /\ ret' = Returned(PromiseObject)
  /\ settleLog' = <<Reject(err)>>
  /\ promise' = SettleAll(PendingPromise, <<Reject(err)>>)

\* return new Promise(...) whose executor leaves it pending
ReturnPending ==
  /\ ret' = Returned(PromiseObject)
  /\ settleLog' = <<>>
  /\ promise' = PendingPromise

\* onboardMobile with an executor that rejects at once instead of from the hook
onboardMobileRejectsAtOnce ==
  /\ ReturnRejected(ErrMobile)
  /\ call' = [fn |-> "onboard", pc |-> "awaitHook", pre |-> Pre]
  /\ events' = <<Event("mobileBlocked", "onboard", "", TRUE, state)>>
  /\ state' = [state EXCEPT !.validBrowser = FALSE]

\* lines 200-213: the executor of the mobile-block promise
onboardMobile ==
  /\ ReturnPending
  /\ call' = [fn |-> "onboard", pc |-> "awaitHook", pre |-> Pre]
  /\ events' = <<Event("mobileBlocked", "onboard", "", TRUE, state)>>
  /\ state' = [state EXCEPT !.validBrowser = FALSE]

\* onboardGate without the return: execution goes on to lines 216-219
onboardGateFallsThrough(err) ==
  /\ ReturnPending
  /\ call' = [fn |-> "onboard", pc |-> "awaitPrepare", pre |-> Pre, tag |-> "onboard",
              ok |-> FALSE, outcome |-> JSUndefined]
  /\ events' = <<>>
  /\ UNCHANGED state

\* lines 189, 195: return Promise.reject(errorObj)
onboardGate(err) ==
  /\ ReturnRejected(err)
  /\ call' = [fn |-> "onboard", pc |-> "done", pre |-> Pre]
  /\ events' = <<>>
  /\ UNCHANGED state

\* lines 216-219, up to the await; tag: the argument given to prepareForTransaction,
\* ok / outcome: how the collaborator settles (filled in when it does)
onboardPrepare ==
  /\ ReturnPending
  /\ call' = [fn |-> "onboard", pc |-> "awaitPrepare", pre |-> Pre, tag |-> "onboard",
              ok |-> FALSE, outcome |-> JSUndefined]
  /\ events' = <<>>
  /\ UNCHANGED state

onboardInteractive ==
  /\ Idle
  /\ apis # {}
  /\ ~state.config.headlessMode
  /\ cbCalls' = <<>>
  /\ hookRuns' = 0
  /\ wrapped' = NoWrapped
  /\ UNCHANGED <<windowWeb3, apis>>
  /\ IF ~state.validApiKey THEN onboardGate(ErrApiKey)
     ELSE IF ~state.supportedNetwork THEN onboardGate(ErrNetwork)
     ELSE IF state.mobileDevice THEN onboardMobile
     ELSE onboardPrepare

\* lines 204-208: the presentation layer invokes onClose
onClose ==
  /\ call.fn = "onboard"
  /\ events # <<>> /\ events[1].onClose
  /\ hookRuns < MaxHookRuns
  /\ hookRuns' = hookRuns + 1
  /\ settleLog' = Append(settleLog, Reject(ErrMobile))
  /\ promise' = Settle(promise, "rejected", ErrMobile)
  /\ call' = [call EXCEPT !.pc = "done"]
  /\ UNCHANGED <<state, windowWeb3, apis, ret, events, cbCalls, wrapped>>

\* lines 217-218: prepareForTransaction('onboard') settles
prepareForTransactionDone ==
  /\ call.fn = "onboard" /\ call.pc = "awaitPrepare"
  /\ \E ok \in BOOLEAN, ready \in ReadyValues :
       LET log == IF ok THEN <<Resolve(ready)>>
                  ELSE <<Reject(CollaboratorError), Resolve(JSUndefined)>> IN
       /\ settleLog' = log
       /\ promise' = SettleAll(promise, log)
       /\ call' = [call EXCEPT !.pc = "done", !.ok = ok,
                               !.outcome = IF ok THEN ready ELSE CollaboratorError]
  /\ UNCHANGED <<state, windowWeb3, apis, ret, events, cbCalls, hookRuns, wrapped>>

\* The detectors behind checkUserEnvironment (run by getState, which init calls at
\* line 95 and which is part of the API) re-evaluate the browser.
checkValidBrowser ==
  /\ \E valid \in BOOLEAN : state' = [state EXCEPT !.validBrowser = valid]
  /\ UNCHANGED <<windowWeb3, apis, call, ret, promise, settleLog, events, cbCalls,
                 hookRuns, wrapped>>

-----------------------------------------------------------------------------
(* Contract descriptors.                                                   *)

\* an ABI source of a descriptor: absent (undefined), or a list of entries
Absent == [present |-> FALSE, entries |-> <<>>]
Present(entries) == [present |-> TRUE, entries |-> entries]
AbiEntry(name, nInputs) == [name |-> name, inputs |-> nInputs]

\* keys: Object.keys(contractObj) in order; abi, jsonInterface, abiModel: the three
\* places an ABI may come from (contractObj.abi, contractObj._jsonInterface,
\* contractObj.abiModel.abi.methods)
Descriptor(keys, abi, jsonInterface, abiModel) ==
  [keys |-> keys, abi |-> abi, jsonInterface |-> jsonInterface, abiModel |-> abiModel]

\* lines 257-262
ResolveAbi(contractObj) ==
  IF contractObj.abi.present THEN contractObj.abi.entries
  ELSE IF contractObj.jsonInterface.present THEN contractObj.jsonInterface.entries
  ELSE contractObj.abiModel.entries

\* the value the original object holds under `key`
OrigValue(key) == [kind |-> "original", key |-> key, names |-> <<>>, inputs |-> 0]
\* lines 278-327: the legacy replacement (function with .call, .sendTransaction, .getData)
LegacyWrapper(methodABI) ==
  [kind |-> "legacyWrapper", key |-> methodABI.name, names |-> <<>>,
   inputs |-> methodABI.inputs]
\* lines 333-339: the rebuilt `methods` aggregate, one handle per ABI entry
ModernMethods(abi) ==
  [kind |-> "modernMethods", key |-> "methods",
   names |-> [i \in 1..Len(abi) |-> abi[i].name], inputs |-> 0]

SeqRange(seq) == {seq[i] : i \in 1..Len(seq)}

\* abi.find(method => method.name === key): the index of the first match, 0 if none
AbiFind(abi, key) ==
  IF \E i \in 1..Len(abi) : abi[i].name = key
  THEN CHOOSE i \in 1..Len(abi) :
         abi[i].name = key /\ \A j \in 1..(i - 1) : abi[j].name # key
  ELSE 0

EmptyObject == [k \in {} |-> OrigValue("")]
\* obj[key] = value
SetKey(obj, key, value) == (key :> value) @@ obj

OriginalObject(contractObj) ==
  [k \in SeqRange(contractObj.keys) |-> OrigValue(k)]

\* the reducer's step with the legacy copy of non-method keys left out
DelegateKeyWithoutCopy(newContractObj, key, abi, legacyWeb3) ==
  IF legacyWeb3 THEN
    IF AbiFind(abi, key) = 0
    THEN newContractObj
    ELSE SetKey(newContractObj, abi[AbiFind(abi, key)].name,
                LegacyWrapper(abi[AbiFind(abi, key)]))
  ELSE
    IF key # "methods"
    THEN SetKey(newContractObj, key, OrigValue(key))
    ELSE SetKey(newContractObj, "methods", ModernMethods(abi))

\* lines 268-341: the reducer's step for one key
DelegateKey(newContractObj, key, abi, legacyWeb3) ==
  IF legacyWeb3 THEN
    IF AbiFind(abi, key) = 0
    THEN SetKey(newContractObj, key, OrigValue(key))
    ELSE SetKey(newContractObj, abi[AbiFind(abi, key)].name,
                LegacyWrapper(abi[AbiFind(abi, key)]))
  ELSE
    IF key # "methods"
    THEN SetKey(newContractObj, key, OrigValue(key))
    ELSE SetKey(newContractObj, "methods", ModernMethods(abi))

RECURSIVE ReduceKeys(_, _, _, _)
\* lines 267-344: contractKeys.reduce(..., contractClone)
ReduceKeys(newContractObj, keys, abi, legacyWeb3) ==
  IF keys = <<>> THEN newContractObj
  ELSE ReduceKeys(DelegateKey(newContractObj, Head(keys), abi, legacyWeb3),
                  Tail(keys), abi, legacyWeb3)

\* lines 255-346
Delegate(contractObj, legacyWeb3) ==
  ReduceKeys(EmptyObject, contractObj.keys, ResolveAbi(contractObj), legacyWeb3)

-----------------------------------------------------------------------------
(* Contract(contractObj) (lines 224-347)                                   *)

ErrApiKeyContract == JSError("initFail", "Your API key is not valid")
\* the error of lines 246-251 without its eventCode
ErrNoWeb3Untagged == JSError("", "A web3 instance is needed to decorate contract")
ErrNoWeb3 == JSError("initFail", "A web3 instance is needed to decorate contract")

\* the returned object: `identical` when it is the very reference passed in
ContractReturned(contractObj, result, identical, legacyWeb3) ==
  [made |-> TRUE, original |-> contractObj, result |-> result,
   identical |-> identical, legacy |-> legacyWeb3]

\* the fast-path test reading the configuration from Environment State, as line 370 does
ContractFastPathFromState(config) == state.mobileDevice /\ ~state.config.mobileBlocked

\* line 238; config is the closure's config.mobileBlocked
ContractFastPath(config) == state.mobileDevice /\ ~config

\* config: the configuration held by the closure of the init call that built this API
Contract(config, contractObj) ==
  /\ Idle
  /\ config \in apis
  /\ call' = [fn |-> "Contract", pc |-> "done", config |-> config, pre |-> Pre]
  /\ Fresh
  /\ events' = <<>>
  /\ UNCHANGED <<windowWeb3, apis>>
  /\ IF ~state.validApiKey THEN
       /\ ret' = Thrown(ErrApiKeyContract)
       /\ wrapped' = NoWrapped
       /\ UNCHANGED state
     ELSE IF ~state.supportedNetwork THEN
       /\ ret' = Thrown(ErrNetwork)
       /\ wrapped' = NoWrapped
       /\ UNCHANGED state
     ELSE IF ContractFastPath(config) THEN
       /\ ret' = Returned(ContractObject)
       /\ wrapped' = ContractReturned(contractObj, OriginalObject(contractObj),
                                       TRUE, state.web3Instance = "legacy")
       /\ UNCHANGED state
     ELSE IF state.web3Instance = "none" /\ ~windowWeb3 THEN
       /\ ret' = Thrown(ErrNoWeb3)
       /\ wrapped' = NoWrapped
       /\ UNCHANGED state
     ELSE
       \E inst \in (IF state.web3Instance = "none" THEN ConfigureWeb3Outcomes(FALSE)
                                                    ELSE {state.web3Instance}) :
         /\ state' = [state EXCEPT !.web3Instance = inst]
         /\ ret' = Returned(ContractObject)
         /\ wrapped' = ContractReturned(contractObj,
                                         Delegate(contractObj, inst = "legacy"),
                                         FALSE, inst = "legacy")

-----------------------------------------------------------------------------
(* Transaction(txObject, callback) (lines 351-390)                         *)

\* what the submission collaborator may resolve with
TxResults == {JSStr("0xhash"), JSUndefined}
\* what the raw provider send primitive returns on the mobile fast path
RawSendResult == JSStr("rawSend")
\* state.web3Instance.eth on an unset instance
TypeErrorNoInstance == JSError("", "TypeError: Cannot read property 'eth' of undefined")

\* callback(err): one argument
CallbackError(err) == [args |-> 1, err |-> err, result |-> JSUndefined]
\* callback(null, result)
CallbackResult(result) == [args |-> 2, err |-> JSNull, result |-> result]

\* The submission collaborator (logic/send-transaction): when it succeeds it hands
\* the result to the callback it was given; when it fails it rejects and leaves
\* the callback to its caller.
SubmissionCallbacks(ok, hasCallback, result) ==
  IF ok /\ hasCallback THEN <<CallbackResult(result)>> ELSE <<>>

\* line 370: the configuration is read from Environment State
TransactionFastPath == state.mobileDevice /\ ~state.config.mobileBlocked

Transaction(hasCallback) ==
  /\ Idle
  /\ apis # {}
  /\ cbCalls' = <<>>
  /\ hookRuns' = 0
  /\ events' = <<>>
  /\ wrapped' = NoWrapped
  /\ UNCHANGED <<windowWeb3, apis>>
  /\ IF ~state.validApiKey THEN
       /\ ReturnRejected(ErrApiKey)
       /\ call' = [fn |-> "Transaction", pc |-> "done", hasCallback |-> hasCallback,
                   path |-> "gate", pre |-> Pre, outcome |-> JSUndefined]
       /\ UNCHANGED state
     ELSE IF ~state.supportedNetwork THEN
       /\ ReturnRejected(ErrNetwork)
       /\ call' = [fn |-> "Transaction", pc |-> "done", hasCallback |-> hasCallback,
                   path |-> "gate", pre |-> Pre, outcome |-> JSUndefined]
       /\ UNCHANGED state
     ELSE
       \E inst \in (IF state.web3Instance = "none" THEN ConfigureWeb3Outcomes(FALSE)
                                                    ELSE {state.web3Instance}) :
         /\ state' = [state EXCEPT !.web3Instance = inst]
         /\ IF inst = "none" THEN
              \* lines 371 / 375-376 dereference state.web3Instance
              /\ ret' = Thrown(TypeErrorNoInstance)
              /\ promise' = NoPromise
              /\ settleLog' = <<>>
              /\ call' = [fn |-> "Transaction", pc |-> "done",
                          hasCallback |-> hasCallback, path |-> "noInstance",
                          pre |-> Pre, outcome |-> JSUndefined]
            ELSE IF TransactionFastPath THEN
              /\ ret' = Returned(RawSendResult)
              /\ promise' = NoPromise
              /\ settleLog' = <<>>
              /\ call' = [fn |-> "Transaction", pc |-> "done",
                          hasCallback |-> hasCallback, path |-> "rawSend",
                          pre |-> Pre, outcome |-> JSUndefined]
            ELSE
              /\ ReturnPending
              /\ call' = [fn |-> "Transaction", pc |-> "awaitSubmission",
                          hasCallback |-> hasCallback, path |-> "submission",
                          pre |-> Pre, outcome |-> JSUndefined]

\* lines 379-388: sendTransaction('activeTransaction', ...) settles
TransactionSubmissionDone ==
  /\ call.fn = "Transaction" /\ call.pc = "awaitSubmission"
  /\ \E ok \in BOOLEAN, result \in TxResults :
       LET log == IF ok THEN <<Resolve(result)>>
                  ELSE <<Reject(CollaboratorError), Resolve(JSUndefined)>>
           relayed == IF ~ok /\ call.hasCallback
                      THEN <<CallbackError(CollaboratorError)>> ELSE <<>> IN
       /\ settleLog' = log
       /\ promise' = SettleAll(promise, log)
       /\ cbCalls' = SubmissionCallbacks(ok, call.hasCallback, result) \o relayed
       /\ call' = [call EXCEPT !.pc = "done",
                               !.path = IF ok THEN "submitted" ELSE "failed",
                               !.outcome = IF ok THEN result ELSE CollaboratorError]
  /\ UNCHANGED <<state, windowWeb3, apis, ret, events, hookRuns, wrapped>>

-----------------------------------------------------------------------------
(* Specification of the entry points under a changing Environment State.   *)

\* the descriptors Contract is given here: one with a legacy-style abi field, one
\* with a modern-style methods aggregate
MainDescriptors ==
  { Descriptor(<<"address", "transfer">>, Present(<<AbiEntry("transfer", 2)>>),
               Absent, Absent),
    Descriptor(<<"methods", "options">>, Absent,
               Present(<<AbiEntry("transfer", 2)>>), Absent) }

Init ==
  /\ \E key \in BOOLEAN, net \in BOOLEAN : state = StateAtLoad(key, net)
  /\ windowWeb3 \in BOOLEAN
  /\ apis = {}
  /\ call = NoCall
  /\ ret = NoRet
  /\ promise = NoPromise
  /\ settleLog = <<>>
  /\ events = <<>>
  /\ cbCalls = <<>>
  /\ hookRuns = 0
  /\ wrapped = NoWrapped

Next ==
  \/ \E config \in ConfigInputs : init(config)
  \/ WebsocketMessage
  \/ onboardInteractive
  \/ onClose
  \/ prepareForTransactionDone
  \/ checkValidBrowser
  \/ \E config \in BOOLEAN, contractObj \in MainDescriptors : Contract(config, contractObj)
  \/ \E hasCallback \in BOOLEAN : Transaction(hasCallback)
  \/ TransactionSubmissionDone

Spec == Init /\ [][Next]_vars

-----------------------------------------------------------------------------
(* onboard(), headless branch (lines 124-184)                              *)

ReadyToTransact == JSStr("User is ready to transact")

RejectIf(cond, code, msg) == IF cond THEN <<Reject(JSError(code, msg))>> ELSE <<>>

\* the account-access check rejecting on missing access alone, whatever the wallet
WalletAccessRejectionsUnnested(st) ==
  RejectIf(~st.accessToAccounts, "walletLogin", "User needs to login to their account")

\* the account-access check with the two tests of a modern wallet in the other order
WalletAccessRejectionsEnableFirst(st) ==
  IF ~st.accessToAccounts
  THEN RejectIf(st.legacyWallet, "walletLogin", "User needs to login to their account")
       \o (IF st.modernWallet
           THEN RejectIf(~st.walletEnabled, "walletEnable",
                         "User needs to enable wallet")
                \o RejectIf(~st.walletLoggedIn, "walletLoginEnable",
                            "User needs to login to wallet")
           ELSE <<>>)
  ELSE <<>>

\* lines 146-166
WalletAccessRejections(st) ==
  IF ~st.accessToAccounts
  THEN RejectIf(st.legacyWallet, "walletLogin", "User needs to login to their account")
       \o (IF st.modernWallet
           THEN RejectIf(~st.walletLoggedIn, "walletLoginEnable",
                         "User needs to login to wallet")
                \o RejectIf(~st.walletEnabled, "walletEnable",
                            "User needs to enable wallet")
           ELSE <<>>)
  ELSE <<>>

\* lines 128-182: every reject / resolve the executor issues after the await, in order
HeadlessSettlements(st) ==
  RejectIf(st.mobileDevice, "mobileBlocked", "User is on a mobile device")
  \o RejectIf(~st.validBrowser, "browserFail", "User has an invalid browser")
  \o RejectIf(~st.web3Wallet, "walletFail", "User does not have a web3 wallet installed")
  \o WalletAccessRejections(st)
  \o RejectIf(~st.correctNetwork, "networkFail", "User is on the wrong network")
  \o RejectIf(~st.minimumBalance, "nsfFail",
              "User does not have the minimum balance specified in the config")
  \o <<Resolve(ReadyToTransact)>>

\* lines 124-126: the promise is returned with its executor suspended at the await
onboardHeadless ==
  /\ Idle
  /\ apis # {}
  /\ state.config.headlessMode
  /\ ReturnPending
  /\ call' = [fn |-> "onboard", pc |-> "awaitEnvironment", pre |-> Pre, envOk |-> TRUE]
  /\ events' = <<>>
  /\ cbCalls' = <<>>
  /\ hookRuns' = 0
  /\ wrapped' = NoWrapped
  /\ UNCHANGED <<state, windowWeb3, apis>>

\* the flags the detectors behind checkUserEnvironment write
DetectedFlags ==
  [validBrowser : BOOLEAN, web3Wallet : BOOLEAN, accessToAccounts : BOOLEAN,
   legacyWallet : BOOLEAN, modernWallet : BOOLEAN, walletLoggedIn : BOOLEAN,
   walletEnabled : BOOLEAN, correctNetwork : BOOLEAN, minimumBalance : BOOLEAN]

WithDetected(st, d) ==
  [st EXCEPT !.validBrowser = d.validBrowser, !.web3Wallet = d.web3Wallet,
             !.accessToAccounts = d.accessToAccounts, !.legacyWallet = d.legacyWallet,
             !.modernWallet = d.modernWallet, !.walletLoggedIn = d.walletLoggedIn,
             !.walletEnabled = d.walletEnabled, !.correctNetwork = d.correctNetwork,
             !.minimumBalance = d.minimumBalance]

Detected(st) ==
  [validBrowser |-> st.validBrowser, web3Wallet |-> st.web3Wallet,
   accessToAccounts |-> st.accessToAccounts, legacyWallet |-> st.legacyWallet,
   modernWallet |-> st.modernWallet, walletLoggedIn |-> st.walletLoggedIn,
   walletEnabled |-> st.walletEnabled, correctNetwork |-> st.correctNetwork,
   minimumBalance |-> st.minimumBalance]

\* What a re-run of the detectors may write: they are re-runnable, so the flags stay
\* as detected before unless a detected fact has changed since; one fact changes
\* between two runs (every combination is an initial state of SpecHeadless).
Redetected(st) ==
  {Detected(st)} \cup {[Detected(st) EXCEPT ![f] = ~@] : f \in DOMAIN Detected(st)}

\* lines 126-182: checkUserEnvironment() settles (its detectors have written their
\* flags) and the rest of the executor runs
checkUserEnvironmentDone ==
  /\ call.fn = "onboard" /\ call.pc = "awaitEnvironment"
  /\ \E ok \in BOOLEAN, d \in Redetected(state) :
       LET st == WithDetected(state, d)
           log == (IF ok THEN <<>> ELSE <<Reject(CollaboratorError)>>)
                  \o HeadlessSettlements(st) IN
       /\ state' = st
       /\ settleLog' = log
       /\ promise' = SettleAll(promise, log)
       /\ call' = [call EXCEPT !.pc = "done", !.envOk = ok]
  /\ UNCHANGED <<windowWeb3, apis, ret, events, cbCalls, hookRuns, wrapped>>

\* Environment State once init has succeeded with headlessMode set and the detectors
\* started by init (getState, line 95) have run: the device class and the detected
\* flags may be anything.
InitHeadless ==
  /\ \E mobile \in BOOLEAN, blocked \in BOOLEAN, d \in DetectedFlags :
       /\ state = WithDetected(
                     [StateAtLoad(TRUE, TRUE) EXCEPT
                        !.config = [kind |-> "object", dappId |-> FALSE,
                                    mobileBlocked |-> blocked, headlessMode |-> TRUE,
                                    web3 |-> FALSE],
                        !.mobileDevice = mobile], d)
       /\ apis = {blocked}
  /\ windowWeb3 = FALSE
  /\ call = NoCall
  /\ ret = NoRet
  /\ promise = NoPromise
  /\ settleLog = <<>>
  /\ events = <<>>
  /\ cbCalls = <<>>
  /\ hookRuns = 0
  /\ wrapped = NoWrapped

NextHeadless ==
  \/ onboardHeadless
  \/ checkUserEnvironmentDone

SpecHeadless == InitHeadless /\ [][NextHeadless]_vars

-----------------------------------------------------------------------------
(* The legacy wrappers built by Contract (lines 278-327).                  *)

JSFunction == [ty |-> "function", b |-> FALSE, n |-> 0, s |-> "callback", eventCode |-> ""]
TxObjectValue == [ty |-> "object", b |-> FALSE, n |-> 0, s |-> "txObject", eventCode |-> ""]

\* JSON.stringify(v): undefined has no JSON text (the call returns undefined);
\* strings are quoted; an Error has no enumerable field but those set on it
JSONStringify(v) ==
  CASE v.ty = "undefined" -> JSUndefined
    [] v.ty = "function" -> JSUndefined
    [] v.ty = "null" -> JSStr("null")
    [] v.ty = "boolean" -> JSStr(IF v.b THEN "true" ELSE "false")
    [] v.ty = "number" -> JSStr(ToString(v.n))
    [] v.ty = "string" -> JSStr("\"" \o v.s \o "\"")
    [] v.ty = "error" -> JSStr(IF v.eventCode = "" THEN "{}"
                               ELSE "{\"eventCode\":\"" \o v.eventCode \o "\"}")
    [] OTHER -> JSStr("{}")

\* The argument splitter (helpers/utilities): the first argsLength arguments are the
\* positional ones; of the rest, a trailing function is the callback and a leading
\* object is the transaction object.
separateArgs(allArgs, argsLength) ==
  LET rest == SubSeq(allArgs, argsLength + 1, Len(allArgs)) IN
  [args |-> SubSeq(allArgs, 1, argsLength),
   callback |-> IF rest # <<>> /\ rest[Len(rest)].ty = "function"
                THEN rest[Len(rest)] ELSE JSUndefined,
   txObject |-> IF rest # <<>> /\ rest[1].ty = "object" THEN rest[1] ELSE JSUndefined]

\* the arguments a caller passes to a method with argsLength inputs
PositionalArgs(argsLength) == [i \in 1..argsLength |-> JSNum(i)]
AllArgs(argsLength, withTxObject, withCallback) ==
  PositionalArgs(argsLength)
  \o (IF withTxObject THEN <<TxObjectValue>> ELSE <<>>)
  \o (IF withCallback THEN <<JSFunction>> ELSE <<>>)

\* what the provider's read-only call may yield, falsy results included
CallResults ==
  {JSNum(0), JSNum(5), JSStr(""), JSStr("0x1"), JSBool(FALSE), JSBool(TRUE), JSNull}
\* what the caller's callback may return
CallbackReturns == {JSUndefined, JSStr("handled")}

ProviderError == JSError("", "provider call failed")

ContractQueryEvent(name, args, result, st) ==
  [Event("contractQuery", "activeContract", "", FALSE, st) EXCEPT
     !.contract = [methodName |-> name, parameters |-> args, result |-> result]]

\* the methods of the returned object that carry the legacy wrappers
LegacyMethods ==
  IF wrapped.made /\ ~wrapped.identical /\ wrapped.legacy
  THEN {k \in DOMAIN wrapped.result : wrapped.result[k].kind = "legacyWrapper"}
  ELSE {}

WrapperCall(fn, name, allArgs) ==
  /\ Idle
  /\ name \in LegacyMethods
  /\ LET sep == separateArgs(allArgs, wrapped.result[name].inputs) IN
       call' = [fn |-> fn, pc |-> "await", name |-> name, args |-> sep.args,
                hasCallback |-> Truthy(sep.callback), ok |-> TRUE,
                outcome |-> JSUndefined]
  /\ ReturnPending
  /\ events' = <<>>
  /\ cbCalls' = <<>>
  /\ hookRuns' = 0
  /\ UNCHANGED <<state, windowWeb3, apis, wrapped>>

\* lines 281-287: newContractObj[name].call(...allArgs), up to the await
legacyCall(name, allArgs) == WrapperCall("call", name, allArgs)

\* lines 287-305: the provider's call settles and the rest of .call runs.
\* caught: what the catch handler `callback && callback(errorObj)` evaluates to
legacyCallDone ==
  /\ call.fn = "call" /\ call.pc = "await"
  /\ \E ok \in BOOLEAN, raw \in CallResults, cbReturn \in CallbackReturns :
       LET caught == IF call.hasCallback THEN cbReturn ELSE JSUndefined
           result == IF ok THEN raw ELSE caught
           onError == IF ~ok /\ call.hasCallback
                      THEN <<CallbackError(ProviderError)>> ELSE <<>>
           onResult == IF Truthy(result) /\ call.hasCallback
                       THEN <<CallbackResult(result)>> ELSE <<>> IN
       /\ cbCalls' = onError \o onResult
       /\ events' = <<ContractQueryEvent(call.name, call.args,
                                          JSONStringify(result), state)>>
       /\ call' = [call EXCEPT !.pc = "done", !.ok = ok,
                               !.outcome = IF ok THEN raw ELSE ProviderError]
  /\ settleLog' = <<Resolve(JSUndefined)>>
  /\ promise' = SettleAll(promise, <<Resolve(JSUndefined)>>)
  /\ UNCHANGED <<state, windowWeb3, apis, ret, hookRuns, wrapped>>

\* lines 308-314: newContractObj[name].sendTransaction(...allArgs), up to the await
legacySendTransaction(name, allArgs) == WrapperCall("sendTransaction", name, allArgs)

\* the catch handler passing the error on to the caller of the wrapper
RelayAndRethrow(hasCallback, errorObj) ==
  [cbCalls |-> IF hasCallback THEN <<CallbackError(errorObj)>> ELSE <<>>,
   settlements |-> <<Reject(errorObj)>>]

\* line 324 and the end of the async function: the error goes to the callback, if
\* any, and the wrapper's promise resolves
AbsorbIntoCallback(hasCallback, errorObj) ==
  [cbCalls |-> IF hasCallback THEN <<CallbackError(errorObj)>> ELSE <<>>,
   settlements |-> <<Resolve(JSUndefined)>>]

\* lines 314-325: sendTransaction('activeContract', ...) settles
legacySendTransactionDone ==
  /\ call.fn = "sendTransaction" /\ call.pc = "await"
  /\ \E ok \in BOOLEAN, result \in TxResults :
       LET absorbed == AbsorbIntoCallback(call.hasCallback, CollaboratorError)
           log == IF ok THEN <<Resolve(JSUndefined)>> ELSE absorbed.settlements IN
       /\ cbCalls' = SubmissionCallbacks(ok, call.hasCallback, result)
                      \o (IF ok THEN <<>> ELSE absorbed.cbCalls)
       /\ settleLog' = log
       /\ promise' = SettleAll(promise, log)
       /\ call' = [call EXCEPT !.pc = "done", !.ok = ok,
                               !.outcome = IF ok THEN result ELSE CollaboratorError]
  /\ UNCHANGED <<state, windowWeb3, apis, ret, events, hookRuns, wrapped>>

\* Descriptors given to Contract: every ordered selection of these keys, with each of
\* these ABIs held in each of the three places an ABI may come from. The places
\* ranking below the one that holds the ABI hold a decoy naming `address`.
AdapterKeys == <<"address", "transfer", "balanceOf", "methods">>
AdapterAbis ==
  { <<>>,
    <<AbiEntry("transfer", 2)>>,
    <<AbiEntry("transfer", 2), AbiEntry("balanceOf", 1)>>,
    <<AbiEntry("methods", 0), AbiEntry("balanceOf", 1)>> }
DecoyAbi == Present(<<AbiEntry("address", 0)>>)

RECURSIVE SubSequences(_)
SubSequences(seq) ==
  IF seq = <<>> THEN {<<>>}
  ELSE LET rest == SubSequences(Tail(seq)) IN
       rest \cup {<<Head(seq)>> \o r : r \in rest}

AdapterDescriptors ==
  {Descriptor(keys, Present(abi), DecoyAbi, DecoyAbi) :
     keys \in SubSequences(AdapterKeys), abi \in AdapterAbis}
  \cup {Descriptor(keys, Absent, Present(abi), DecoyAbi) :
     keys \in SubSequences(AdapterKeys), abi \in AdapterAbis}
  \cup {Descriptor(keys, Absent, Absent, Present(abi)) :
     keys \in SubSequences(AdapterKeys), abi \in AdapterAbis}

\* Environment State once init({dappId, web3}) has succeeded on a desktop device
InitAdapter ==
  /\ \E inst \in Web3Kinds :
       state = [StateAtLoad(TRUE, TRUE) EXCEPT
                  !.config = [kind |-> "object", dappId |-> FALSE,
                              mobileBlocked |-> FALSE, headlessMode |-> FALSE,
                              web3 |-> FALSE],
                  !.web3Instance = inst]
  /\ apis = {FALSE}
  /\ windowWeb3 = FALSE
  /\ call = NoCall
  /\ ret = NoRet
  /\ promise = NoPromise
  /\ settleLog = <<>>
  /\ events = <<>>
  /\ cbCalls = <<>>
  /\ hookRuns = 0
  /\ wrapped = NoWrapped

NextAdapter ==
  \/ \E config \in BOOLEAN, contractObj \in AdapterDescriptors :
       Contract(config, contractObj)
  \/ \E name \in LegacyMethods, withTxObject \in BOOLEAN, withCallback \in BOOLEAN :
       legacyCall(name, AllArgs(wrapped.result[name].inputs, withTxObject, withCallback))
  \/ legacyCallDone
  \/ \E name \in LegacyMethods, withTxObject \in BOOLEAN, withCallback \in BOOLEAN :
       legacySendTransaction(name, AllArgs(wrapped.result[name].inputs, withTxObject,
                                           withCallback))
  \/ legacySendTransactionDone

SpecAdapter == InitAdapter /\ [][NextAdapter]_vars

-----------------------------------------------------------------------------
(* Properties of init.                                                     *)

LastInitLacksDappId ==
  /\ call.fn = "init"
  /\ (call.config.kind # "object" \/ ~call.config.dappId)

\* C1: an init call whose config is missing, is not an object or has no dappId
\* throws an error with eventCode 'initFail', has notified exactly one 'initFail'
\* event of category 'initialize', and does not return the API object.
C1_InitFailsWithoutDappId ==
  LastInitLacksDappId =>
    /\ ret.kind = "thrown"
    /\ ret.value.ty = "error"
    /\ ret.value.eventCode = "initFail"
    /\ Len(events) = 1
    /\ events[1].eventCode = "initFail"
    /\ events[1].categoryCode = "initialize"
    /\ ret # Returned(ApiObject)

C1_Witness ==
  /\ call.fn = "init"
  /\ call.config.kind = "object" /\ ~call.config.dappId /\ call.config.mobileBlocked
  /\ ret.kind = "thrown"
  /\ events # <<>>

LastInitObjectWithoutDappId ==
  /\ call.fn = "init"
  /\ call.config.kind = "object"
  /\ ~call.config.dappId

\* C2 as stated: init({}) throws an error with eventCode 'initFail' whose reason text
\* is "No API key provided to init function", the text of the notified event.
C2_ThrownErrorCarriesNotifiedReason ==
  LastInitObjectWithoutDappId =>
    /\ ret.kind = "thrown"
    /\ ret.value.eventCode = "initFail"
    /\ ret.value.s = ReasonNoApiKey
    /\ ret.value.s = events[1].reason

\* C2 as amended: init({}) throws an error with eventCode 'initFail' and message
\* "API key is required"; the text "No API key provided to init function" is the
\* reason of the notified 'initFail' event only.
C2_ThrownErrorHasOwnMessage ==
  LastInitObjectWithoutDappId =>
    /\ ret.kind = "thrown"
    /\ ret.value.eventCode = "initFail"
    /\ ret.value.s = MessageNoApiKey
    /\ Len(events) = 1
    /\ events[1].eventCode = "initFail"
    /\ events[1].reason = ReasonNoApiKey

C2_Witness ==
  /\ LastInitObjectWithoutDappId
  /\ ~call.config.mobileBlocked /\ ~call.config.headlessMode /\ ~call.config.web3
  /\ ret.kind = "thrown"
  /\ ~state.validApiKey

-----------------------------------------------------------------------------
(* Properties of the interactive mobile-block flow of onboard.             *)

HookOffered ==
  /\ call.fn = "onboard"
  /\ events # <<>>
  /\ events[1].onClose

C5_WhilePending ==
  /\ (call.fn = "onboard" /\ call.pc = "awaitHook") => HookOffered
  /\ HookOffered =>
       /\ Len(events) = 1
       /\ events[1].eventCode = "mobileBlocked"
       /\ events[1].categoryCode = "onboard"
       /\ promise.status # "resolved"
       /\ hookRuns = 0 => promise.status = "pending"
       /\ hookRuns > 0 => /\ promise.status = "rejected"
                          /\ promise.value.eventCode = "mobileBlocked"

\* a call of interactive onboard with a valid key and a supported network, on a
\* mobile device
OnboardOnMobile ==
  /\ onboardInteractive
  /\ state.validApiKey /\ state.supportedNetwork /\ state.mobileDevice

\* what such a call has done when it returns
MobileBlockIssued ==
  /\ call'.pc = "awaitHook"
  /\ ret'.kind = "returned"
  /\ promise'.status = "pending"
  /\ Len(events') = 1
  /\ events'[1].eventCode = "mobileBlocked"
  /\ events'[1].categoryCode = "onboard"
  /\ events'[1].onClose
  /\ ~state'.validBrowser

\* C5: interactive onboard on a mobile device (key valid, network supported) notifies
\* one 'mobileBlocked' event of category 'onboard' with a dismissal hook; the promise
\* is pending in every state before the hook runs, is rejected with 'mobileBlocked'
\* once it has run, never resolves, and validBrowser is false when onboard returns.
C5_MobileBlockWaitsForHook ==
  /\ []C5_WhilePending
  /\ [][OnboardOnMobile => MobileBlockIssued]_vars

C5_Witness ==
  /\ HookOffered
  /\ hookRuns = 1
  /\ promise.status = "rejected"
  /\ state.validApiKey /\ state.supportedNetwork

-----------------------------------------------------------------------------
(* Properties of Contract's mobile fast path.                              *)

ReturnedIdentical ==
  /\ ret.kind = "returned"
  /\ wrapped.made
  /\ wrapped.identical
  /\ wrapped.result = OriginalObject(wrapped.original)

\* C6 as stated: whenever the device is mobile and the configuration does not block
\* mobile, Contract returns the identical descriptor and does not throw.
C6_MobileAlwaysReturnsOriginal ==
  (call.fn = "Contract" /\ state.mobileDevice /\ ~call.config
     /\ ~state.config.mobileBlocked)
    => ReturnedIdentical

\* C6 as amended: when the API key is valid, the network is supported, the device is
\* mobile and the configuration given to the init call that built this Contract does
\* not block mobile, Contract returns the identical, unmodified descriptor.
C6_MobileReturnsOriginalPastGates ==
  (call.fn = "Contract" /\ call.pre.validApiKey /\ call.pre.supportedNetwork
     /\ state.mobileDevice /\ ~call.config)
    => ReturnedIdentical

C6_Witness ==
  /\ call.fn = "Contract"
  /\ state.mobileDevice /\ ~call.config
  /\ wrapped.made /\ wrapped.identical
  /\ state.config.mobileBlocked

-----------------------------------------------------------------------------
(* Properties of Transaction.                                              *)

RECURSIVE EffectiveSettlements(_, _)
\* how many of the resolve / reject calls of `log` changed the promise
EffectiveSettlements(p, log) ==
  IF log = <<>> THEN 0
  ELSE (IF Settle(p, Head(log).how, Head(log).value) # p THEN 1 ELSE 0)
       + EffectiveSettlements(Settle(p, Head(log).how, Head(log).value), Tail(log))

ThroughSubmission ==
  /\ call.fn = "Transaction"
  /\ call.pc = "done"
  /\ call.hasCallback
  /\ call.path \in {"submitted", "failed"}

-----------------------------------------------------------------------------
(* Properties of the headless branch of onboard.                           *)

Checks == 1..6

\* whether check i of section 4.1 fails on Environment State st
CheckFails(i, st) ==
  CASE i = 1 -> st.mobileDevice
    [] i = 2 -> ~st.validBrowser
    [] i = 3 -> ~st.web3Wallet
    [] i = 4 -> /\ ~st.accessToAccounts
                /\ \/ st.legacyWallet
                   \/ st.modernWallet /\ (~st.walletLoggedIn \/ ~st.walletEnabled)
    [] i = 5 -> ~st.correctNetwork
    [] i = 6 -> ~st.minimumBalance

CheckCodes(i) ==
  CASE i = 1 -> {"mobileBlocked"}
    [] i = 2 -> {"browserFail"}
    [] i = 3 -> {"walletFail"}
    [] i = 4 -> {"walletLogin", "walletLoginEnable", "walletEnable"}
    [] i = 5 -> {"networkFail"}
    [] i = 6 -> {"nsfFail"}

HeadlessDone == call.fn = "onboard" /\ call.pc = "done" /\ state.config.headlessMode

FailingChecks == {i \in Checks : CheckFails(i, state)}

FirstFailing == CHOOSE i \in FailingChecks : \A j \in FailingChecks : i <= j

RejectedCodes ==
  {settleLog[k].value.eventCode : k \in {n \in 1..Len(settleLog) : settleLog[n].how = "rejected"}}

\* the first failing check decides the outcome, and every failing check has still
\* issued its reject
FirstFailureWins ==
  /\ promise.status = "rejected"
  /\ promise.value.eventCode \in CheckCodes(FirstFailing)
  /\ \A j \in FailingChecks : RejectedCodes \cap CheckCodes(j) # {}
  /\ settleLog[Len(settleLog)] = Resolve(ReadyToTransact)

\* C3 as stated: in every headless run in which some check fails, the promise rejects
\* with the eventCode of the first failing check, later checks still being evaluated.
C3_FirstFailureWinsAlways ==
  (HeadlessDone /\ FailingChecks # {}) => FirstFailureWins

\* C3 as amended: in every headless run in which the environment check succeeds and
\* some check fails, the promise rejects with the eventCode of the first failing
\* check; every later check is still evaluated and its reject changes nothing.
C3_FirstFailureWinsAfterEnvironmentCheck ==
  (HeadlessDone /\ call.envOk /\ FailingChecks # {}) => FirstFailureWins

C3_Witness ==
  /\ HeadlessDone /\ call.envOk
  /\ FailingChecks = {2, 4, 6}
  /\ promise.status = "rejected"
  /\ promise.value.eventCode = "browserFail"
  /\ Len(settleLog) > 3

\* C4: a headless run whose environment check succeeds and in which none of the six
\* checks fails resolves with 'User is ready to transact' and never calls reject.
C4_HeadlessReady ==
  (HeadlessDone /\ call.envOk /\ FailingChecks = {}) =>
    /\ promise = [status |-> "resolved", value |-> ReadyToTransact]
    /\ \A k \in 1..Len(settleLog) : settleLog[k].how # "rejected"

C4_Witness ==
  /\ HeadlessDone /\ call.envOk
  /\ FailingChecks = {}
  /\ ~state.accessToAccounts
  /\ promise.status = "resolved"

-----------------------------------------------------------------------------
(* Properties of the object Contract returns.                              *)

Delegated == wrapped.made /\ ~wrapped.identical

\* the own keys of the original that no entry of its ABI names
NonAbiKeys ==
  LET abi == ResolveAbi(wrapped.original) IN
  {k \in SeqRange(wrapped.original.keys) : \A i \in 1..Len(abi) : abi[i].name # k}

ReadsOriginal(k) ==
  /\ k \in DOMAIN wrapped.result
  /\ wrapped.result[k] = OrigValue(k)

\* C7 as stated: on the object Contract builds, every own key of the original that
\* no ABI entry names reads as the original's value.
C7_EveryNonAbiKeyPassesThrough ==
  Delegated => \A k \in NonAbiKeys : ReadsOriginal(k)

\* C7 as amended: on the object Contract builds, every own key of the original that
\* no ABI entry names reads as the original's value, except the key `methods` on the
\* modern provider path, which reads as the rebuilt aggregate.
C7_NonAbiKeysPassThroughExceptModernMethods ==
  Delegated =>
    \A k \in NonAbiKeys :
      IF ~wrapped.legacy /\ k = "methods"
      THEN wrapped.result[k] = ModernMethods(ResolveAbi(wrapped.original))
      ELSE ReadsOriginal(k)

C7_Witness ==
  /\ Delegated
  /\ wrapped.legacy
  /\ NonAbiKeys = {"address", "methods"}
  /\ LegacyMethods = {"transfer", "balanceOf"}

-----------------------------------------------------------------------------
(* Properties of the legacy wrappers.                                      *)

LegacyCallDone == call.fn = "call" /\ call.pc = "done"

\* C8: every legacy .call(...) emits exactly one contractQuery / activeContract event
\* carrying the method name, the positional arguments and a result that is JSON
\* text, the serialization of the raw call result.
C8_OneQueryEventWithJsonResult ==
  LegacyCallDone =>
    /\ Len(events) = 1
    /\ events[1].eventCode = "contractQuery"
    /\ events[1].categoryCode = "activeContract"
    /\ events[1].contract.methodName = call.name
    /\ events[1].contract.parameters = call.args
    /\ events[1].contract.result.ty = "string"
    /\ call.ok => events[1].contract.result = JSONStringify(call.outcome)

LegacySendFailed == call.fn = "sendTransaction" /\ call.pc = "done" /\ ~call.ok

\* C10: when the submission collaborator fails under a legacy .sendTransaction(...),
\* the error goes to the callback if one was supplied, and the promise returned by
\* .sendTransaction does not reject; nothing is thrown to the caller.
C10_SendTransactionAbsorbsFailure ==
  LegacySendFailed =>
    /\ ret.kind = "returned"
    /\ promise.status = "resolved"
    /\ \A k \in 1..Len(settleLog) : settleLog[k].how # "rejected"
    /\ cbCalls = IF call.hasCallback THEN <<CallbackError(call.outcome)>> ELSE <<>>

C10_Witness ==
  /\ LegacySendFailed
  /\ call.hasCallback
  /\ cbCalls # <<>>
  /\ promise.status = "resolved"

-----------------------------------------------------------------------------
(* Properties of Contract's preconditions.                                 *)

ContractStep ==
  \E config \in BOOLEAN, contractObj \in MainDescriptors : Contract(config, contractObj)

ContractThrewInitFail ==
  /\ ret'.kind = "thrown"
  /\ ret'.value.ty = "error"
  /\ ret'.value.eventCode = "initFail"
  /\ wrapped' = NoWrapped

\* the state a Contract call starts in has no provider instance, and the call is
\* past the gates and not on the mobile fast path
NeedsInstance ==
  /\ state.validApiKey /\ state.supportedNetwork
  /\ ~ContractFastPath(call'.config)
  /\ state.web3Instance = "none"

\* C11: a Contract call throws an 'initFail' error when the API key is invalid, when
\* the network is unsupported, and when (off the mobile fast path) there is neither
\* a provider instance nor a global ambient provider; with an ambient provider and
\* no instance the provider is configured and an adapted object is returned. No
\* call that throws returns an object.
C11_ContractThrowsOrConfigures ==
  [][ContractStep =>
      /\ ~state.validApiKey => ContractThrewInitFail
      /\ (state.validApiKey /\ ~state.supportedNetwork) => ContractThrewInitFail
      /\ (NeedsInstance /\ ~windowWeb3) => ContractThrewInitFail
      /\ (NeedsInstance /\ windowWeb3) =>
           /\ state'.web3Instance # "none"
           /\ ret' = Returned(ContractObject)
           /\ wrapped'.made /\ ~wrapped'.identical
      /\ ret'.kind = "thrown" => (wrapped' = NoWrapped /\ state' = state)]_vars

C11_Witness ==
  /\ call.fn = "Contract"
  /\ call.pre.validApiKey /\ call.pre.supportedNetwork
  /\ ret = Thrown(ErrNoWeb3)
  /\ state.web3Instance = "none" /\ ~windowWeb3
  /\ wrapped = NoWrapped

-----------------------------------------------------------------------------
(* Properties of the interactive branch of onboard.                        *)

\* what a gate of onboard leaves behind: a promise rejected with err, no
\* notification, Environment State untouched, the collaborator not invoked
GateRejected(err) ==
  /\ ret' = Returned(PromiseObject)
  /\ promise' = [status |-> "rejected", value |-> err]
  /\ err.eventCode = "initFail"
  /\ events' = <<>>
  /\ state' = state
  /\ call'.pc = "done"

PrepareInvoked == call'.fn = "onboard" /\ call'.pc = "awaitPrepare"

PrepareSettled == call.fn = "onboard" /\ call.pc = "done" /\ "tag" \in DOMAIN call

\* C12: interactive onboard rejects with 'initFail' on an invalid API key, else on an
\* unsupported network, in both cases without a notification, a write to
\* Environment State or a call of prepareForTransaction; prepareForTransaction is
\* called, with 'onboard', exactly when the key is valid, the network supported and
\* the device not mobile, and the promise then resolves with its ready value or
\* rejects with its error.
C12_InteractiveGatesThenPrepare ==
  /\ [][onboardInteractive =>
          /\ ~state.validApiKey => GateRejected(ErrApiKey)
          /\ (state.validApiKey /\ ~state.supportedNetwork) => GateRejected(ErrNetwork)
          /\ PrepareInvoked <=> (/\ state.validApiKey /\ state.supportedNetwork
                                 /\ ~state.mobileDevice)
          /\ PrepareInvoked => (call'.tag = "onboard" /\ promise' = PendingPromise)]_vars
  /\ [](PrepareSettled =>
          /\ call.pre.validApiKey /\ call.pre.supportedNetwork /\ ~state.mobileDevice
          /\ promise = [status |-> IF call.ok THEN "resolved" ELSE "rejected",
                        value |-> call.outcome])

C12_Witness ==
  /\ PrepareSettled
  /\ ~call.ok
  /\ promise = [status |-> "rejected", value |-> CollaboratorError]
  /\ Len(settleLog) = 2

-----------------------------------------------------------------------------
(* Properties of the headless branch when the environment check fails.     *)

EnvironmentCheckFailed == HeadlessDone /\ ~call.envOk

\* C13: a headless run whose environment check fails rejects with the error of
\* checkUserEnvironment whatever the Environment State flags are: the rejects of the
\* failing checks and the final resolve, all still issued, leave it in place.
C13_EnvironmentFailureWins ==
  EnvironmentCheckFailed =>
    /\ promise = [status |-> "rejected", value |-> CollaboratorError]
    /\ Head(settleLog) = Reject(CollaboratorError)
    /\ settleLog[Len(settleLog)] = Resolve(ReadyToTransact)
    /\ \A j \in FailingChecks : RejectedCodes \cap CheckCodes(j) # {}

C13_Witness ==
  /\ EnvironmentCheckFailed
  /\ FailingChecks = {1, 5}
  /\ promise.value = CollaboratorError
  /\ Len(settleLog) = 4

-----------------------------------------------------------------------------
(* Properties of the account-access check of the headless branch.          *)

\* a finished headless run whose environment check succeeded and whose first three
\* checks (mobile device, browser, wallet) pass
WalletCheckDecides ==
  /\ HeadlessDone /\ call.envOk
  /\ ~state.mobileDevice /\ state.validBrowser /\ state.web3Wallet

\* the eventCode the promise rejected with ("" when it did not reject)
ReportedTag == IF promise.status = "rejected" THEN promise.value.eventCode ELSE ""

NoWalletTagIssued == RejectedCodes \cap CheckCodes(4) = {}

-----------------------------------------------------------------------------
(* Properties of the callback of a legacy .call(...).                      *)

LegacyCallWithCallback == LegacyCallDone /\ call.hasCallback

\* C15: when the provider's call fails under a legacy .call(...) given a callback,
\* the callback is invoked exactly once, with the error as its only argument and
\* never in the form (null, result), and the promise of .call does not reject,
\* whatever the callback returns.
C15_FailedCallReachesCallbackOnce ==
  (LegacyCallWithCallback /\ ~call.ok) =>
    /\ cbCalls = <<CallbackError(call.outcome)>>
    /\ promise.status = "resolved"
    /\ \A k \in 1..Len(settleLog) : settleLog[k].how # "rejected"

\* C16: when the provider's call succeeds under a legacy .call(...) given a callback,
\* the callback is invoked exactly once, as callback(null, result), whatever the
\* result is: 0, false, the empty string and null included.
C16_EveryResultReachesCallback ==
  (LegacyCallWithCallback /\ call.ok) =>
    cbCalls = <<CallbackResult(call.outcome)>>

-----------------------------------------------------------------------------
(* Properties of Transaction's preconditions and mobile fast path.         *)

TransactionStep == \E hasCallback \in BOOLEAN : Transaction(hasCallback)

TransactionRejected(err) ==
  /\ ret' = Returned(PromiseObject)
  /\ promise' = [status |-> "rejected", value |-> err]
  /\ err.eventCode = "initFail"

\* the call starts past both gates, on a mobile device that the configuration in
\* Environment State does not block
OnTransactionFastPath ==
  /\ state.validApiKey /\ state.supportedNetwork
  /\ state.mobileDevice /\ ~state.config.mobileBlocked

\* the raw send result is returned and the dispatcher has done nothing else: the
\* submission collaborator (which owns the queue) is not called, nothing is
\* notified, the callback is not invoked, and of Environment State at most the
\* provider instance has been configured
RawSendOnly ==
  /\ ret' = Returned(RawSendResult)
  /\ call'.pc = "done" /\ call'.path = "rawSend"
  /\ promise' = NoPromise
  /\ events' = <<>>
  /\ cbCalls' = <<>>
  /\ state' = [state EXCEPT !.web3Instance = state'.web3Instance]

\* C17: Transaction rejects with 'initFail' on an invalid API key, else on an
\* unsupported network, before it looks at the device; past both gates, on a mobile
\* device the configuration does not block, it returns the result of the raw
\* provider send and does nothing else: no submission collaborator, no telemetry,
\* no queueing, no callback.
C17_GatesThenRawSend ==
  [][TransactionStep =>
      /\ ~state.validApiKey => TransactionRejected(ErrApiKey)
      /\ (state.validApiKey /\ ~state.supportedNetwork) => TransactionRejected(ErrNetwork)
      /\ OnTransactionFastPath => RawSendOnly]_vars

-----------------------------------------------------------------------------
(* Order of flag updates and failure reports.                              *)

\* the events of the last call with this eventCode, each holding the flags as the
\* notifier found them
Notified(code) == {k \in DOMAIN events : events[k].eventCode = code}

\* C18: the flag update that belongs to a failure is applied before the failure is
\* reported: when init without dappId notifies 'initFail', validApiKey is already
\* false, and when interactive onboard notifies 'mobileBlocked' and hands out the
\* dismissal hook, validBrowser is already false.
C18_FlagWrittenBeforeReport ==
  /\ LastInitObjectWithoutDappId =>
       \A k \in Notified("initFail") : ~events[k].validApiKey
  /\ HookOffered =>
       \A k \in Notified("mobileBlocked") : ~events[k].validBrowser

\* C19: no Transaction call throws synchronously, whatever Environment State it
\* starts in, the one without a provider instance and without a configurable
\* provider included: a failure shows as a rejection of the returned promise.
C19_TransactionNeverThrows ==
  call.fn = "Transaction" =>
    /\ ret.kind = "returned"
    /\ call.path \in {"gate", "failed"} => promise.status = "rejected"

-----------------------------------------------------------------------------
(* Agreement of Contract and Transaction on the mobile fast path.          *)

\* C20: for every API object init has returned, whatever init calls came later,
\* with a valid API key, a supported network and a mobile device, its Contract
\* returns the original descriptor if and only if its Transaction submits through
\* the raw provider send: both read the same mobileBlocked setting.
C20_FastPathsAgree ==
  \A config \in apis :
    (state.validApiKey /\ state.supportedNetwork /\ state.mobileDevice) =>
      (ContractFastPath(config) <=> TransactionFastPath)

====
